---- MODULE Spec2Model ----
(***************************************************************************)
(* Fecha Instalacao: entitlement reconciliation (Kiwify webhooks) and the  *)
(* free-tier ceiling on budget creation.                                   *)
(*                                                                         *)
(* Strings whose content the code inspects (emails, statuses, signature    *)
(* prefixes, environment values) are sequences of one-character strings,   *)
(* so that strip(), lower(), startswith() and the "in" substring test are  *)
(* computed as Python computes them.                                       *)
(***************************************************************************)
EXTENDS Integers, Sequences, FiniteSets, TLC

VARIABLES
    env,        \* process environment: the two KIWIFY_* variables
    users,      \* table "users": id -> [email, is_pro]
    budgets,    \* table "budgets": sequence of rows [user_id, status], id = index
    req,        \* the request handled last (NoReq before the first one)
    resp,       \* the response to it
    pc,         \* concurrently handled creation requests: position of each worker
    who,        \* ... the session user of each worker's request
    chk,        \* ... the value can_create_budget returned to each worker
    rev         \* history: progress of activate, deactivate, activate for account 1

vars == <<env, users, budgets, req, resp, pc, who, chk, rev>>

----------------------------------------------------------------------------
(* Bounds *)

MaxBudgets == 11        \* rows the budgets table may hold in the model
MaxUsers == 3           \* rows the users table may hold in the model

----------------------------------------------------------------------------
(* Python str helpers over character sequences *)

LowerChar(c) ==
    CASE c = "A" -> "a" [] c = "B" -> "b" [] c = "C" -> "c" [] c = "D" -> "d"
      [] c = "E" -> "e" [] c = "F" -> "f" [] c = "G" -> "g" [] c = "H" -> "h"
      [] c = "I" -> "i" [] c = "J" -> "j" [] c = "K" -> "k" [] c = "L" -> "l"
      [] c = "M" -> "m" [] c = "N" -> "n" [] c = "O" -> "o" [] c = "P" -> "p"
      [] c = "Q" -> "q" [] c = "R" -> "r" [] c = "S" -> "s" [] c = "T" -> "t"
      [] c = "U" -> "u" [] c = "V" -> "v" [] c = "W" -> "w" [] c = "X" -> "x"
      [] c = "Y" -> "y" [] c = "Z" -> "z" [] OTHER -> c

lower(s) == [i \in 1..Len(s) |-> LowerChar(s[i])]

IsSpace(c) == c \in {" ", "\t", "\n", "\r"}

RECURSIVE lstrip(_)
lstrip(s) == IF s # <<>> /\ IsSpace(Head(s)) THEN lstrip(Tail(s)) ELSE s

RECURSIVE rstrip(_)
rstrip(s) ==
    IF s # <<>> /\ IsSpace(s[Len(s)]) THEN rstrip(SubSeq(s, 1, Len(s) - 1)) ELSE s

strip(s) == rstrip(lstrip(s))

\* Python: x in s
contains(x, s) ==
    \E i \in 0..(Len(s) - Len(x)) : \A j \in 1..Len(x) : s[i + j] = x[j]

startswith(s, p) == Len(s) >= Len(p) /\ \A j \in 1..Len(p) : s[j] = p[j]

----------------------------------------------------------------------------
(* String literals *)

W_paid       == <<"p","a","i","d">>
W_approved   == <<"a","p","p","r","o","v","e","d">>
W_aprov      == <<"a","p","r","o","v">>
W_active     == <<"a","c","t","i","v","e">>
W_ativa      == <<"a","t","i","v","a">>
W_completed  == <<"c","o","m","p","l","e","t","e","d">>
W_success    == <<"s","u","c","c","e","s","s">>
W_refunded   == <<"r","e","f","u","n","d","e","d">>
W_refund     == <<"r","e","f","u","n","d">>
W_chargeback == <<"c","h","a","r","g","e","b","a","c","k">>
W_canceled   == <<"c","a","n","c","e","l","e","d">>
W_cancelled  == <<"c","a","n","c","e","l","l","e","d">>
W_expired    == <<"e","x","p","i","r","e","d">>
W_inactive   == <<"i","n","a","c","t","i","v","e">>
W_falha      == <<"f","a","l","h","a">>
W_failed     == <<"f","a","i","l","e","d">>
W_aprovado   == <<"a","p","r","o","v","a","d","o">>
W_pago       == <<"p","a","g","o">>
W_sha256     == <<"s","h","a","2","5","6","=">>
W_SHA256     == <<"S","H","A","2","5","6","=">>
W_md5        == <<"m","d","5","=">>
W_one        == <<"1">>
W_zero       == <<"0">>
W_true       == <<"t","r","u","e">>
W_at         == <<"@">>

\* sample inputs
S_trial      == <<"t","r","i","a","l","_","s","t","a","r","t","e","d">>
S_PaidSp     == <<" ","P","a","i","d"," ">>
S_blank      == <<" "," ">>
S_payfail    == <<"p","a","y","m","e","n","t","_","f","a","i","l","e","d">>
S_subcancel  == <<"s","u","b","_","c","a","n","c","e","l","e","d">>
S_waiting    == <<"w","a","i","t","i","n","g">>
E_a          == <<"a","@","x",".","i","o">>
E_b          == <<"b","@","x",".","i","o">>
E_c          == <<"c","@","x",".","i","o">>
E_aUpSp      == <<" ","A","@","X",".","i","o"," ">>
E_noat       == <<"a","x",".","i","o">>
E_cUpSp      == <<" ","C","@","X",".","i","o"," ">>
PW1          == <<"p","1">>
PW2          == <<"p","2">>
PW1Sp        == <<" ","p","1">>
U_checkout   == <<"h","t","t","p","s",":","/","/","p","a","y">>
K1           == <<"k","1">>
K2           == <<"k","2">>

----------------------------------------------------------------------------
(* JSON values of a webhook body.  A dict is a function from its keys. *)

Null      == [t |-> "null"]
Num       == [t |-> "num"]
Str(s)    == [t |-> "str", v |-> s]
Dict(d)   == [t |-> "dict", d |-> d]
None      == [t |-> "none"]
EmptyDict == <<>>

IsStr(x)  == x.t = "str"

\* dict.get(key): the value, None (null) when the key is missing
Get(d, key) == IF key \in DOMAIN d THEN d[key] ELSE Null

ObjectBody(p) == [kind |-> "object", payload |-> p]
MalformedBody == [kind |-> "malformed"]
NonObjectBody == [kind |-> "nonobject"]

----------------------------------------------------------------------------
(* Signatures.  An HMAC-SHA256 digest is modelled by the pair it is computed *)
(* from (keyed hashes of different keys or bodies differ).  A header value   *)
(* is the text pre followed by the hex digest of mac (nothing when mac.nil). *)

NoMac       == [nil |-> TRUE]
hmac_sha256(key, raw) == [nil |-> FALSE, key |-> key, msg |-> raw]

Header(pre, mac) == [pre |-> pre, mac |-> mac]

\* Python truthiness of a header value
HeaderTruthy(h) == h.pre # <<>> \/ ~h.mac.nil

\* str.strip() of a header value (hex digits are not whitespace)
sig_strip(h) ==
    IF h.mac.nil THEN [h EXCEPT !.pre = strip(h.pre)]
                 ELSE [h EXCEPT !.pre = lstrip(h.pre)]

EmptySig == Header(<<>>, NoMac)

get_signature_from_headers(headers) ==
    LET candidates == <<"x-kiwify-signature", "x-signature",
                        "x-hub-signature-256", "kiwify-signature">>
        hits == {i \in 1..Len(candidates) :
                    /\ candidates[i] \in DOMAIN headers
                    /\ HeaderTruthy(headers[candidates[i]])}
    IN  IF hits = {} THEN EmptySig
        ELSE sig_strip(headers[candidates[CHOOSE i \in hits : \A j \in hits : i <= j]])

normalize_sig(sig) ==
    IF startswith(lower(sig.pre), W_sha256)
    THEN sig_strip([sig EXCEPT !.pre = SubSeq(sig.pre, Len(W_sha256) + 1, Len(sig.pre))])
    ELSE sig_strip(sig)

\* hmac.compare_digest(expected, given): equality of the two texts
compare_digest(expected, given) == given.pre = <<>> /\ given.mac = expected

\* mutant: the digest is compared without regard to the key
verify_signature_anykey(raw_body, secret, header_sig) ==
    LET given == normalize_sig(header_sig)
    IN  given.pre = <<>> /\ ~given.mac.nil /\ given.mac.msg = raw_body

verify_signature(raw_body, secret, header_sig) ==
    IF secret = <<>> THEN FALSE
    ELSE compare_digest(hmac_sha256(secret, raw_body), normalize_sig(header_sig))

----------------------------------------------------------------------------
(* Field extraction and classification (app/routes/kiwify_webhook.py) *)

FirstIndex(S) == CHOOSE i \in S : \A j \in S : i <= j

\* the walk of extract_email along a path: the value reached, None when a
\* key is missing or the current value is not a dict
RECURSIVE Walk(_, _)
Walk(cur, path) ==
    IF path = <<>> THEN cur
    ELSE IF cur.t = "dict" /\ Head(path) \in DOMAIN cur.d
         THEN Walk(cur.d[Head(path)], Tail(path))
         ELSE None

\* mutant: the email is trimmed but keeps its letter case
extract_email_cased(payload) ==
    LET paths == <<<<"customer", "email">>, <<"Customer", "email">>,
                   <<"buyer", "email">>, <<"Buyer", "email">>, <<"email">>>>
        at(i) == Walk(Dict(payload), paths[i])
        hits == {i \in 1..Len(paths) : IsStr(at(i)) /\ contains(W_at, at(i).v)}
    IN  IF hits = {} THEN None
        ELSE Str(strip(at(FirstIndex(hits)).v))

extract_email(payload) ==
    LET paths == <<<<"customer", "email">>, <<"Customer", "email">>,
                   <<"buyer", "email">>, <<"Buyer", "email">>, <<"email">>>>
        at(i) == Walk(Dict(payload), paths[i])
        hits == {i \in 1..Len(paths) : IsStr(at(i)) /\ contains(W_at, at(i).v)}
    IN  IF hits = {} THEN None
        ELSE Str(lower(strip(at(FirstIndex(hits)).v)))

\* mutant: a status that classifies as ignore is passed over
extract_status_deep(payload) ==
    LET keys == <<"status", "order_status", "payment_status",
                  "subscription_status", "event", "type">>
        v(i) == Get(payload, keys[i])
        hits == {i \in 1..Len(keys) :
                    /\ IsStr(v(i)) /\ strip(v(i).v) # <<>>
                    /\ \E x \in {W_paid, W_refunded} : contains(x, lower(v(i).v))}
    IN  IF hits = {} THEN <<>>
        ELSE lower(strip(v(FirstIndex(hits)).v))

extract_status(payload) ==
    LET keys == <<"status", "order_status", "payment_status",
                  "subscription_status", "event", "type">>
        v(i) == Get(payload, keys[i])
        hits == {i \in 1..Len(keys) : IsStr(v(i)) /\ strip(v(i).v) # <<>>}
    IN  IF hits = {} THEN <<>>
        ELSE lower(strip(v(FirstIndex(hits)).v))

ActivateWords ==
    {W_paid, W_approved, W_aprov, W_active, W_ativa, W_completed, W_success}

DeactivateWords ==
    {W_refunded, W_refund, W_chargeback, W_canceled, W_cancelled, W_expired,
     W_inactive, W_falha, W_failed}

\* mutant: "paid" is missing from the activate list
status_to_pro_unpaid(status) ==
    LET s == lower(status)
    IN  IF \E x \in ActivateWords \ {W_paid} : contains(x, s) THEN "True"
        ELSE IF \E x \in DeactivateWords : contains(x, s) THEN "False"
        ELSE "None"

\* mutant: a status of neither list activates
status_to_pro_default(status) ==
    LET s == lower(status)
    IN  IF \E x \in DeactivateWords : contains(x, s) THEN "False" ELSE "True"

\* "True" / "False" / "None"
status_to_pro(status) ==
    LET s == lower(status)
    IN  IF \E x \in ActivateWords : contains(x, s) THEN "True"
        ELSE IF \E x \in DeactivateWords : contains(x, s) THEN "False"
        ELSE "None"

----------------------------------------------------------------------------
(* Persistence: users and budgets (app/models) *)

FREE_LIMIT_TOTAL_BUDGETS == 10

\* app/core/security.py: the pbkdf2 hash of the trimmed password
hash_password(password) == [pbkdf2 |-> strip(password)]
verify_password(password, password_hash) == password_hash = [pbkdf2 |-> strip(password)]

\* mutant: every new row is entitled
NewUser_pro(email, password_hash, is_pro) ==
    [email |-> email, is_pro |-> TRUE, password_hash |-> password_hash]

NewUser(email, password_hash, is_pro) ==
    [email |-> email, is_pro |-> is_pro, password_hash |-> password_hash]

User(email, is_pro) == NewUser(email, hash_password(PW1), is_pro)
Budget(user_id) == [user_id |-> user_id, status |-> "awaiting"]

\* mutant: the where clause is lost
UsersByEmail_any(email) == DOMAIN users

\* select(User).where(User.email == email): ids of the matching rows
UsersByEmail(email) == {u \in DOMAIN users : users[u].email = email}

\* select(func.count(Budget.id)).where(Budget.user_id == user_id)
CountBudgets(user_id) ==
    Cardinality({i \in DOMAIN budgets : budgets[i].user_id = user_id})

----------------------------------------------------------------------------
(* Feature gate (app/modules/premium_gate/services.py) and budget service *)

NoneInt == {}
Some(n) == {n}
Max(a, b) == IF a >= b THEN a ELSE b

PremiumGateInfo(is_pro, total, remaining, near_limit, at_limit) ==
    [is_pro |-> is_pro, total_budgets |-> total, limit |-> FREE_LIMIT_TOTAL_BUDGETS,
     remaining |-> remaining, near_limit |-> near_limit, at_limit |-> at_limit]

\* what a count query does: it yields the count, it raises, or it yields None
QueryOutcomes == {"ok", "raise", "no_value"}

\* mutant: near_limit loses its lower bound
get_gate_info_near(user_id, q) ==
    IF user_id \notin DOMAIN users
    THEN PremiumGateInfo(FALSE, 0, Some(FREE_LIMIT_TOTAL_BUDGETS), FALSE, FALSE)
    ELSE LET total == IF q = "no_value" THEN 0 ELSE CountBudgets(user_id)
             remaining == Max(0, FREE_LIMIT_TOTAL_BUDGETS - total)
         IN  IF users[user_id].is_pro
             THEN PremiumGateInfo(TRUE, total, NoneInt, FALSE, FALSE)
             ELSE PremiumGateInfo(FALSE, total, Some(remaining),
                                  remaining <= 2, remaining = 0)

\* mutant: the entitlement is not looked at
get_gate_info_nopro(user_id, q) ==
    IF user_id \notin DOMAIN users
    THEN PremiumGateInfo(FALSE, 0, Some(FREE_LIMIT_TOTAL_BUDGETS), FALSE, FALSE)
    ELSE LET total == IF q = "no_value" THEN 0 ELSE CountBudgets(user_id)
             remaining == Max(0, FREE_LIMIT_TOTAL_BUDGETS - total)
         IN  PremiumGateInfo(FALSE, total, Some(remaining),
                             remaining > 0 /\ remaining <= 2, remaining = 0)

\* q: the outcome of the count query, "ok" or "no_value"
get_gate_info(user_id, q) ==
    IF user_id \notin DOMAIN users
    THEN PremiumGateInfo(FALSE, 0, Some(FREE_LIMIT_TOTAL_BUDGETS), FALSE, FALSE)
    ELSE LET total == IF q = "no_value" THEN 0 ELSE CountBudgets(user_id)
             remaining == Max(0, FREE_LIMIT_TOTAL_BUDGETS - total)
         IN  IF users[user_id].is_pro
             THEN PremiumGateInfo(TRUE, total, NoneInt, FALSE, FALSE)
             ELSE PremiumGateInfo(FALSE, total, Some(remaining),
                                  remaining > 0 /\ remaining <= 2, remaining = 0)

render_banner_html(info) ==
    IF info.is_pro THEN ""
    ELSE IF info.at_limit THEN "blocking"
    ELSE IF info.near_limit THEN "warning"
    ELSE ""

\* returns the tuple (allowed, total)
can_create_budget(user_id, q) ==
    IF users[user_id].is_pro THEN <<TRUE, -1>>
    ELSE LET total == IF q = "no_value" THEN 0 ELSE CountBudgets(user_id)
         IN  IF total >= FREE_LIMIT_TOTAL_BUDGETS THEN <<FALSE, total>>
             ELSE <<TRUE, total>>

\* Python truth value of a tuple: true unless empty
TupleTruthy(t) == Len(t) > 0

create_budget(user_id) == Append(budgets, Budget(user_id))

----------------------------------------------------------------------------
(* Sessions (app/core/deps.py) *)

NoSession      == [kind |-> "none", uid |-> 0]
GarbageSession == [kind |-> "garbage", uid |-> 0]
Session(uid)   == [kind |-> "uid", uid |-> uid]
\* a decodable cookie whose uid is a text that is not a number
TextSession    == [kind |-> "text", uid |-> 0]
\* delete_cookie: the cookie is cleared
ClearedSession == [kind |-> "cleared", uid |-> 0]

\* mutant: an undecodable cookie is taken for the session of user 1
get_user_id_from_request_lax(sess) ==
    IF sess.kind = "none" THEN NoneInt
    ELSE IF sess.kind = "garbage" THEN Some(1)
    ELSE Some(sess.uid)

\* str(uid) of a decodable session cookie, {} (None) otherwise
get_user_id_from_request(sess) ==
    IF sess.kind \in {"uid", "text"} THEN Some(sess.uid) ELSE NoneInt

\* int(uid_raw) raises ValueError
int_raises(sess) == sess.kind = "text"

----------------------------------------------------------------------------
(* Requests and responses *)

NoHeaders == <<>>

NoReq == [op |-> "none"]

\* session: the session cookie the response sets (NoSession: none)
Resp(code, ok, key, msg) ==
    [code |-> code, ok |-> ok, key |-> key, msg |-> msg, is_pro |-> "-",
     loc |-> "", banner |-> "", session |-> NoSession]

NoResp == Resp(0, "-", "", "")

Redirect(url, banner) == [Resp(303, "-", "", "") EXCEPT !.loc = url, !.banner = banner]

----------------------------------------------------------------------------
(* What a notification says, read off the request itself: the vocabulary  *)
(* of the specification, the signature the provider sends, the customer   *)
(* email and the status of the payload.                                   *)

SpecActivate ==
    {W_paid, W_approved, W_aprov, W_active, W_ativa, W_completed, W_success}

SpecDeactivate ==
    {W_refunded, W_refund, W_chargeback, W_canceled, W_cancelled, W_expired,
     W_inactive, W_falha, W_failed}

IsWebhook(r) == r.op \in {"kiwify_webhook", "webhook"}

Secret == strip(env.KIWIFY_WEBHOOK_SECRET)
AllowUnsigned == strip(env.KIWIFY_ALLOW_UNSIGNED_WEBHOOKS) = W_one

\* the header value is the hex HMAC of the body under the configured secret,
\* bare or tagged sha256=
Matches(h, body) ==
    /\ h.mac = [nil |-> FALSE, key |-> Secret, msg |-> body]
    /\ Secret # <<>>
    /\ lower(lstrip(h.pre)) \in {<<>>, W_sha256}

\* the signature headers a request carries (non-empty values)
SigHeaders(r) == {h \in DOMAIN r.headers : r.headers[h] # Header(<<>>, NoMac)}

CorrectlySigned(r) ==
    /\ SigHeaders(r) # {}
    /\ \A h \in SigHeaders(r) : Matches(r.headers[h], r.body)

BadlySigned(r) == \A h \in SigHeaders(r) : ~Matches(r.headers[h], r.body)

\* the request passes the authentication its endpoint asks for
Authenticated(r) ==
    IF r.op = "kiwify_webhook" THEN AllowUnsigned \/ CorrectlySigned(r)
    ELSE /\ Secret # <<>>
         /\ \/ r.query_secret = Secret
            \/ r.query_secret = <<>> /\ r.x_kiwify_secret = Secret

\* the body is a JSON object that says nothing but customer.email and status
Plain(r) == r.body.kind = "object" /\ DOMAIN r.body.payload \subseteq {"customer", "status"}

\* customer.email and status of a plain payload, None when not there
ReqEmail(r) ==
    IF Plain(r) /\ "customer" \in DOMAIN r.body.payload
    THEN r.body.payload.customer.d.email ELSE None

ReqStatus(r) ==
    IF Plain(r) /\ "status" \in DOMAIN r.body.payload
    THEN r.body.payload.status ELSE None

\* the status, when there is one, is a string
WellFormed(r) == Plain(r) /\ (ReqStatus(r) = None \/ IsStr(ReqStatus(r)))

\* the account the notification names: its email, trimmed and lowercased
Names(r, u) == IsStr(ReqEmail(r)) /\ lower(strip(ReqEmail(r).v)) = users[u].email

NamesNobody(r) ==
    /\ IsStr(ReqEmail(r))
    /\ contains(W_at, ReqEmail(r).v)
    /\ \A u \in DOMAIN users : ~Names(r, u)

HasWord(r, words) ==
    IsStr(ReqStatus(r)) /\ \E w \in words : contains(w, lower(ReqStatus(r).v))

\* the status is one of the words of a vocabulary
IsWord(r, words) == IsStr(ReqStatus(r)) /\ lower(strip(ReqStatus(r).v)) \in words

Activating(r) == IsWord(r, SpecActivate)
Deactivating(r) == IsWord(r, SpecDeactivate)

----------------------------------------------------------------------------
(* History of the notifications processed for account 1: how far the       *)
(* sequence activate, deactivate, activate has come (stage), and the       *)
(* entitlement seen after its deactivate (mid) and its last activate (fin) *)

NoRev == [stage |-> 0, mid |-> FALSE, fin |-> FALSE]

RevNext(activating, after) ==
    IF activating
    THEN IF rev.stage = 2
         THEN [rev EXCEPT !.stage = 3, !.fin = after]
         ELSE [NoRev EXCEPT !.stage = 1]
    ELSE IF rev.stage = 1
         THEN [rev EXCEPT !.stage = 2, !.mid = after]
         ELSE NoRev

\* the history moves when an authenticated notification names the watched
\* account and carries an activating or a deactivating status
Observe(r, users2) ==
    IF /\ Authenticated(r)
       /\ 1 \in DOMAIN users
       /\ Names(r, 1)
       /\ Activating(r) \/ Deactivating(r)
    THEN RevNext(Activating(r), users2[1].is_pro)
    ELSE rev

----------------------------------------------------------------------------
(* POST /webhooks/kiwify (app/routes/kiwify_webhook.py) *)

\* mutant: any non-empty value of the flag enables the bypass
allow_unsigned_nonempty == strip(env.KIWIFY_ALLOW_UNSIGNED_WEBHOOKS) # <<>>

allow_unsigned == strip(env.KIWIFY_ALLOW_UNSIGNED_WEBHOOKS) = W_one

\* mutant: the opposite value is written
set_is_pro_negated(u, value) == [users EXCEPT ![u].is_pro = ~value]

\* mutant: the write lands on another row
set_is_pro_other(u, value) ==
    [users EXCEPT ![CHOOSE v \in DOMAIN users : v # u].is_pro = value]

\* mutant: the write reaches every row
set_is_pro_all(u, value) == [x \in DOMAIN users |-> [users[x] EXCEPT !.is_pro = value]]

\* mutant: the flag is toggled
set_is_pro_toggle(u, value) == [users EXCEPT ![u].is_pro = ~users[u].is_pro]

\* user.is_pro = bool(decision); db.commit()
set_is_pro(u, value) == [users EXCEPT ![u].is_pro = value]

kiwify_webhook(r) ==
    LET secret == strip(env.KIWIFY_WEBHOOK_SECRET)
        header_sig == get_signature_from_headers(r.headers)
        payload == r.body.payload
        email == extract_email(payload)
        status == extract_status(payload)
        decision == status_to_pro(status)
        found == UsersByEmail(email.v)
        reject(rsp) == /\ resp' = rsp
                       /\ users' = users
    IN  /\ r.op = "kiwify_webhook"
        /\ req' = r
        /\ UNCHANGED <<env, budgets, pc, who, chk>>
        /\ IF ~allow_unsigned /\ header_sig = EmptySig
           THEN reject(Resp(401, "false", "error", "missing_signature"))
           ELSE IF ~allow_unsigned /\ ~verify_signature(r.body, secret, header_sig)
           THEN reject(Resp(401, "false", "error", "invalid_signature"))
           ELSE IF r.body.kind = "malformed"
           THEN reject(Resp(400, "false", "error", "invalid_json"))
           ELSE IF r.body.kind = "nonobject"
           THEN \* payload.get raises AttributeError in _extract_status
                reject(Resp(500, "-", "", "server_error"))
           ELSE IF email = None
           THEN reject(Resp(400, "false", "error", "missing_email"))
           ELSE IF decision = "None"
           THEN reject(Resp(200, "true", "message", "event_ignored"))
           ELSE IF found = {}
           THEN reject(Resp(200, "true", "message", "user_not_found"))
           ELSE /\ users' = set_is_pro(CHOOSE x \in found : TRUE, decision = "True")
                /\ resp' = [Resp(200, "true", "", "applied") EXCEPT
                              !.is_pro = IF decision = "True" THEN "true" ELSE "false"]
        /\ rev' = Observe(r, users')

----------------------------------------------------------------------------
(* POST /webhook/kiwify (app/routes/webhook.py), the router main.py mounts *)

get_secret_from_request(r) ==
    IF strip(r.query_secret) # <<>> THEN strip(r.query_secret)
    ELSE IF strip(r.x_kiwify_secret) # <<>> THEN strip(r.x_kiwify_secret)
    ELSE <<>>

\* Python truthiness of a JSON value
Truthy(x) == (x.t = "str" /\ x.v # <<>>) \/ x.t = "num" \/ (x.t = "dict" /\ DOMAIN x.d # {})

\* a or b
Or(a, b) == IF Truthy(a) THEN a ELSE b

\* (payload.get(key, {}) or {}).get(child)
GetChild(payload, key, child) == Get(Or(Get(payload, key), Dict(EmptyDict)).d, child)

paid_keywords == {W_paid, W_approved, W_aprovado, W_pago, W_completed, W_success}

webhook_email(payload) ==
    Or(GetChild(payload, "customer", "email"),
       Or(GetChild(payload, "buyer", "email"), Or(Get(payload, "email"), Str(<<>>))))

\* mutant: a missing status counts as a status that is not a paid one
webhook_status_waiting(payload) ==
    Or(Get(payload, "status"),
       Or(Get(payload, "payment_status"),
          Or(GetChild(payload, "order", "status"), Str(S_waiting))))

webhook_status(payload) ==
    Or(Get(payload, "status"),
       Or(Get(payload, "payment_status"), Or(GetChild(payload, "order", "status"), Str(<<>>))))

\* the handler raises: the body is not a JSON object, a truthy non-dict stands
\* where a dict is read, or a non-string where a string is stripped
webhook_raises(body) ==
    \/ body.kind # "object"
    \/ \E k \in {"customer", "buyer", "order"} :
          Truthy(Get(body.payload, k)) /\ Get(body.payload, k).t # "dict"
    \/ ~IsStr(webhook_email(body.payload))
    \/ ~IsStr(webhook_status(body.payload))

webhook_kiwify_webhook(r) ==
    LET received == get_secret_from_request(r)
        expected == strip(env.KIWIFY_WEBHOOK_SECRET)
        payload == r.body.payload
        email == lower(strip(webhook_email(payload).v))
        status == lower(strip(webhook_status(payload).v))
        is_paid == IF status # <<>> THEN \E k \in paid_keywords : contains(k, status)
                   ELSE TRUE
        found == UsersByEmail(email)
        ignored(reason) == Resp(200, "true", "reason", reason)
        reply(rsp) == /\ resp' = rsp
                      /\ users' = users
    IN  /\ r.op = "webhook"
        /\ req' = r
        /\ UNCHANGED <<env, budgets, pc, who, chk>>
        /\ IF expected = <<>>
           THEN reply(Resp(500, "false", "error", "secret_not_configured"))
           ELSE IF received = <<>> \/ received # expected
           THEN reply(Resp(401, "false", "error", "unauthorized"))
           ELSE IF webhook_raises(r.body)
           THEN reply(Resp(500, "-", "", "server_error"))
           ELSE IF email = <<>>
           THEN reply(ignored("missing_email"))
           ELSE IF ~is_paid
           THEN reply(ignored("not_paid"))
           ELSE IF found = {}
           THEN reply(ignored("user_not_found"))
           ELSE /\ users' = set_is_pro(CHOOSE x \in found : TRUE, TRUE)
                /\ resp' = Resp(200, "true", "pro_activated_for", "applied")
        /\ rev' = Observe(r, users')

----------------------------------------------------------------------------
(* POST /app/budgets/new: premium-gate middleware (main.py), then the      *)
(* handler budgets_new_post (app/routes/app.py).  r.gate_q and r.svc_q are *)
(* what the two count queries yield: a member of QueryOutcomes.                 *)

\* mutant: an exception in the middleware blocks the request
premium_gate_middleware_closed(r) ==
    LET uid_raw == get_user_id_from_request(r.sess)
        uid == CHOOSE x \in uid_raw : TRUE
        info == get_gate_info(uid, r.gate_q)
    IN  IF uid_raw = NoneInt THEN [blocked |-> FALSE, banner |-> ""]
        ELSE IF int_raises(r.sess) \/ r.gate_q = "raise"
        THEN [blocked |-> TRUE, banner |-> ""]
        ELSE [blocked |-> (~info.is_pro) /\ info.at_limit,
              banner |-> render_banner_html(info)]

\* the middleware's verdict for a POST to /app/budgets/new
premium_gate_middleware(r) ==
    LET uid_raw == get_user_id_from_request(r.sess)
        uid == CHOOSE x \in uid_raw : TRUE
        info == get_gate_info(uid, r.gate_q)
    IN  IF uid_raw = NoneInt THEN [blocked |-> FALSE, banner |-> ""]
        ELSE IF int_raises(r.sess) \/ r.gate_q = "raise"
        THEN \* except Exception: no banner, the request is passed on
             [blocked |-> FALSE, banner |-> ""]
        ELSE [blocked |-> (~info.is_pro) /\ info.at_limit,
              banner |-> render_banner_html(info)]

\* the uid, {} when HTTPException(401) is raised
require_user(sess) ==
    IF get_user_id_from_request(sess) = NoneInt \/ int_raises(sess) THEN NoneInt
    ELSE get_user_id_from_request(sess)

budgets_new_post(r) ==
    LET gate == premium_gate_middleware(r)
        uid_raw == require_user(r.sess)
        uid == CHOOSE x \in uid_raw : TRUE
    IN  /\ r.op = "budgets_new_post"
        /\ req' = r
        /\ UNCHANGED <<env, users, pc, who, chk, rev>>
        /\ IF gate.blocked
           THEN /\ resp' = [Resp(403, "-", "", "limit_reached") EXCEPT !.banner = gate.banner]
                /\ budgets' = budgets
           ELSE IF uid_raw = NoneInt
           THEN /\ resp' = Redirect("/login", gate.banner)
                /\ budgets' = budgets
           ELSE IF uid \notin DOMAIN users
           THEN /\ resp' = Redirect("/login", gate.banner)
                /\ budgets' = budgets
           ELSE IF (~users[uid].is_pro) /\ r.svc_q = "raise"
           THEN /\ resp' = [Resp(500, "-", "", "server_error") EXCEPT !.banner = gate.banner]
                /\ budgets' = budgets
           ELSE IF ~TupleTruthy(can_create_budget(uid, r.svc_q))
           THEN /\ resp' = Redirect("/app/upgrade", gate.banner)
                /\ budgets' = budgets
           ELSE /\ Len(budgets) < MaxBudgets
                /\ budgets' = create_budget(uid)
                /\ resp' = Redirect("/app", gate.banner)

----------------------------------------------------------------------------
(* The same request handled by concurrent workers: the middleware's gate   *)
(* query, the handler's can_create_budget and its create_budget are three  *)
(* separate database round trips.                                          *)

Workers == {1, 2}

budgets_new_post_gate(w, u) ==
    LET r == [op |-> "budgets_new_post", sess |-> Session(u), gate_q |-> "ok", svc_q |-> "ok"]
        gate == premium_gate_middleware(r)
    IN  /\ pc[w] = "idle"
        /\ UNCHANGED <<env, users, budgets, req, chk, rev>>
        /\ who' = [who EXCEPT ![w] = u]
        /\ IF gate.blocked
           THEN /\ resp' = [Resp(403, "-", "", "limit_reached") EXCEPT !.banner = gate.banner]
                /\ pc' = pc
           ELSE /\ resp' = resp
                /\ pc' = [pc EXCEPT ![w] = "handler"]

budgets_new_post_check(w) ==
    /\ pc[w] = "handler"
    /\ who[w] \in DOMAIN users
    /\ chk' = [chk EXCEPT ![w] = can_create_budget(who[w], "ok")]
    /\ pc' = [pc EXCEPT ![w] = "checked"]
    /\ UNCHANGED <<env, users, budgets, req, resp, who, rev>>

budgets_new_post_create(w) ==
    /\ pc[w] = "checked"
    /\ pc' = [pc EXCEPT ![w] = "idle"]
    /\ UNCHANGED <<env, users, req, who, chk, rev>>
    /\ IF ~TupleTruthy(chk[w])
       THEN /\ resp' = Redirect("/app/upgrade", "")
            /\ budgets' = budgets
       ELSE /\ Len(budgets) < MaxBudgets
            /\ budgets' = create_budget(who[w])
            /\ resp' = Redirect("/app", "")

----------------------------------------------------------------------------
(* POST /webhooks/kiwify handled by concurrent workers: the select of the   *)
(* account row (kiwify_webhook.py:136) and the assignment with its commit   *)
(* (141-142) are separate database round trips of each worker's own session *)

\* what a worker holds of its request: the row it loaded and the value it
\* will write; overlapped: another request was in flight meanwhile
NoTxn == [uid |-> 0, loaded |-> FALSE, value |-> FALSE, overlapped |-> FALSE]

\* mutant: the commit writes the opposite of the stored flag
update_is_pro_toggle(u, loaded, value) == [users EXCEPT ![u].is_pro = ~users[u].is_pro]

\* user.is_pro = value; db.commit(): the unit of work issues an UPDATE only
\* when the value differs from the one the session loaded
update_is_pro(u, loaded, value) ==
    IF value # loaded THEN [users EXCEPT ![u].is_pro = value] ELSE users

kiwify_webhook_read(w, r) ==
    LET secret == strip(env.KIWIFY_WEBHOOK_SECRET)
        header_sig == get_signature_from_headers(r.headers)
        payload == r.body.payload
        email == extract_email(payload)
        decision == status_to_pro(extract_status(payload))
        found == UsersByEmail(email.v)
        user == CHOOSE x \in found : TRUE
        busy == \E v \in Workers \ {w} : pc[v] = "loaded"
    IN  /\ r.op = "kiwify_webhook"
        /\ pc[w] = "idle"
        /\ allow_unsigned \/ (header_sig # EmptySig /\ verify_signature(r.body, secret, header_sig))
        /\ r.body.kind = "object"
        /\ email # None
        /\ decision # "None"
        /\ req' = r
        /\ UNCHANGED <<env, users, budgets, who, rev>>
        /\ IF found = {}
           THEN /\ resp' = Resp(200, "true", "message", "user_not_found")
                /\ UNCHANGED <<pc, chk>>
           ELSE /\ resp' = resp
                /\ pc' = [pc EXCEPT ![w] = "loaded"]
                /\ chk' = [v \in Workers |->
                             IF v = w
                             THEN [uid |-> user, loaded |-> users[user].is_pro,
                                   value |-> (decision = "True"), overlapped |-> busy]
                             ELSE IF pc[v] = "loaded"
                             THEN [chk[v] EXCEPT !.overlapped = TRUE]
                             ELSE chk[v]]

kiwify_webhook_write(w) ==
    /\ pc[w] = "loaded"
    /\ users' = update_is_pro(chk[w].uid, chk[w].loaded, chk[w].value)
    /\ resp' = [Resp(200, "true", "", "applied") EXCEPT
                  !.is_pro = IF chk[w].value THEN "true" ELSE "false"]
    /\ pc' = [pc EXCEPT ![w] = "idle"]
    /\ UNCHANGED <<env, budgets, req, who, chk, rev>>

----------------------------------------------------------------------------
(* POST /app/budgets/{budget_id}/status (app/routes/app.py).  A budget's id *)
(* is its position in budgets.                                              *)

T_awaiting   == <<"a","w","a","i","t","i","n","g">>
T_aguardando == <<"a","g","u","a","r","d","a","n","d","o">>
T_pendente   == <<"p","e","n","d","e","n","t","e">>
T_won        == <<"w","o","n">>
T_fechado    == <<"f","e","c","h","a","d","o">>
T_lost       == <<"l","o","s","t">>
T_perdido    == <<"p","e","r","d","i","d","o">>
T_FechadoSp  == <<" ","F","e","c","h","a","d","o"," ">>
T_done       == <<"d","o","n","e">>

\* mutant: an unknown status is stored as it came
mapping_get_raw(status_s) ==
    IF status_s \in {T_awaiting, T_aguardando, T_pendente} THEN "awaiting"
    ELSE IF status_s \in {T_won, T_fechado} THEN "won"
    ELSE IF status_s \in {T_lost, T_perdido} THEN "lost"
    ELSE IF status_s = <<>> THEN "" ELSE "other"

\* mapping.get(status_s): the stored status, "" (None) for an unknown one
mapping_get(status_s) ==
    IF status_s \in {T_awaiting, T_aguardando, T_pendente} THEN "awaiting"
    ELSE IF status_s \in {T_won, T_fechado} THEN "won"
    ELSE IF status_s \in {T_lost, T_perdido} THEN "lost"
    ELSE ""

\* mutant: the owner is not part of the where clause
select_budget_any(budget_id, uid) ==
    {i \in DOMAIN budgets : i = budget_id}

\* select(Budget).where(Budget.id == budget_id, Budget.user_id == uid)
select_budget(budget_id, uid) ==
    {i \in DOMAIN budgets : i = budget_id /\ budgets[i].user_id = uid}

budgets_status_post(r) ==
    LET banner == premium_gate_middleware(r).banner
        uid_raw == require_user(r.sess)
        uid == CHOOSE x \in uid_raw : TRUE
        status_s == lower(strip(r.status))
        status_db == mapping_get(status_s)
        budget == select_budget(r.budget_id, uid)
    IN  /\ r.op = "budgets_status_post"
        /\ req' = r
        /\ UNCHANGED <<env, users, pc, who, chk, rev>>
        /\ IF uid_raw = NoneInt
           THEN /\ resp' = Redirect("/login", banner)
                /\ budgets' = budgets
           ELSE IF status_db = ""
           THEN /\ resp' = [Redirect("/app", banner) EXCEPT !.key = "flash",
                                                           !.msg = "invalid_status"]
                /\ budgets' = budgets
           ELSE IF budget = {}
           THEN /\ resp' = [Resp(404, "-", "detail", "not_found") EXCEPT !.banner = banner]
                /\ budgets' = budgets
           ELSE /\ budgets' = [budgets EXCEPT ![CHOOSE i \in budget : TRUE].status = status_db]
                /\ resp' = Redirect("/app", banner)

----------------------------------------------------------------------------
(* Accounts: POST /signup, POST /login, GET /logout (app/routes/auth.py) *)

\* mutant: the column carries no unique constraint
IntegrityError_never(email) == UsersByEmail(email) \cap {} # {}

\* the unique constraint on users.email refuses the insert
IntegrityError(email) == UsersByEmail(email) # {}

signup_action(r) ==
    LET email_norm == lower(strip(r.email))
        password_in == strip(r.password)
        existing == UsersByEmail(email_norm)
    IN  /\ r.op = "signup_action"
        /\ req' = r
        /\ UNCHANGED <<env, budgets, pc, who, chk, rev>>
        /\ IF email_norm = <<>> \/ password_in = <<>>
           THEN /\ resp' = Redirect("/signup", "")
                /\ users' = users
           ELSE IF existing # {}
           THEN /\ resp' = Redirect("/login", "")
                /\ users' = users
           ELSE /\ Len(users) < MaxUsers
                /\ users' = Append(users, NewUser(email_norm, hash_password(password_in), FALSE))
                /\ resp' = [Redirect("/app", "") EXCEPT !.session = Session(Len(users) + 1)]

\* POST /signup handled by several workers: the existence check and the
\* commit of the insert are separate steps of one handler
NoForm == [email |-> <<>>, password_hash |-> hash_password(<<>>)]

signup_check(w, r) ==
    LET email_norm == lower(strip(r.email))
        password_in == strip(r.password)
        existing == UsersByEmail(email_norm)
    IN  /\ r.op = "signup_action"
        /\ pc[w] = "idle"
        /\ req' = r
        /\ UNCHANGED <<env, users, budgets, who, rev>>
        /\ IF email_norm = <<>> \/ password_in = <<>>
           THEN /\ resp' = Redirect("/signup", "")
                /\ UNCHANGED <<pc, chk>>
           ELSE IF existing # {}
           THEN /\ resp' = Redirect("/login", "")
                /\ UNCHANGED <<pc, chk>>
           ELSE /\ resp' = resp
                /\ pc' = [pc EXCEPT ![w] = "checked"]
                /\ chk' = [chk EXCEPT ![w] = [email |-> email_norm,
                                              password_hash |-> hash_password(password_in)]]

signup_commit(w) ==
    /\ pc[w] = "checked"
    /\ pc' = [pc EXCEPT ![w] = "idle"]
    /\ UNCHANGED <<env, budgets, req, who, chk, rev>>
    /\ IF IntegrityError(chk[w].email)
       THEN /\ users' = users
            /\ resp' = Redirect("/login", "")
       ELSE /\ Len(users) < MaxUsers
            /\ users' = Append(users, NewUser(chk[w].email, chk[w].password_hash, FALSE))
            /\ resp' = [Redirect("/app", "") EXCEPT !.session = Session(Len(users) + 1)]

login_action(r) ==
    LET email_norm == lower(strip(r.email))
        password_in == strip(r.password)
        found == UsersByEmail(email_norm)
        user == CHOOSE x \in found : TRUE
    IN  /\ r.op = "login_action"
        /\ req' = r
        /\ UNCHANGED <<env, users, budgets, pc, who, chk, rev>>
        /\ IF found = {}
           THEN resp' = Redirect("/login", "")
           ELSE IF ~verify_password(password_in, users[user].password_hash)
           THEN resp' = Redirect("/login", "")
           ELSE resp' = [Redirect("/app", "") EXCEPT !.session = Session(user)]

logout(r) ==
    /\ r.op = "logout"
    /\ req' = r
    /\ UNCHANGED <<env, users, budgets, pc, who, chk, rev>>
    /\ resp' = [Redirect("/login", "") EXCEPT !.session = ClearedSession]

----------------------------------------------------------------------------
(* GET /app/upgrade and GET /app/checkout (app/routes/upgrade.py), behind *)
(* the premium-gate middleware, which only sets the banner for them       *)

\* db.get(User, uid) with the uid text of the cookie: the rows it can yield.
\* A uid that is not a number finds nothing or makes the driver raise.
GetUserOutcomes(sess) ==
    IF int_raises(sess) THEN {"missing", "raise"}
    ELSE IF sess.uid \in DOMAIN users THEN {"found"} ELSE {"missing"}

get_checkout_url == strip(env.KIWIFY_CHECKOUT_URL)

upgrade_page(r) ==
    LET banner == premium_gate_middleware(r).banner
        uid == get_user_id_from_request(r.sess)
    IN  /\ r.op = "upgrade_page"
        /\ req' = r
        /\ UNCHANGED <<env, users, budgets, pc, who, chk, rev>>
        /\ IF uid = NoneInt
           THEN resp' = Redirect("/login", banner)
           ELSE \E got \in GetUserOutcomes(r.sess) :
                  resp' = IF got = "raise"
                          THEN [Resp(500, "-", "", "server_error") EXCEPT !.banner = banner]
                          ELSE IF got = "missing" THEN Redirect("/login", banner)
                          ELSE [Resp(200, "-", "", "upgrade.html") EXCEPT !.banner = banner]

checkout(r) ==
    LET banner == premium_gate_middleware(r).banner
        uid == get_user_id_from_request(r.sess)
    IN  /\ r.op = "checkout"
        /\ req' = r
        /\ UNCHANGED <<env, users, budgets, pc, who, chk, rev>>
        /\ IF uid = NoneInt
           THEN resp' = Redirect("/login", banner)
           ELSE \E got \in GetUserOutcomes(r.sess) :
                  resp' = IF got = "raise"
                          THEN [Resp(500, "-", "", "server_error") EXCEPT !.banner = banner]
                          ELSE IF got = "missing" THEN Redirect("/login", banner)
                          ELSE IF get_checkout_url = <<>> THEN Redirect("/app/upgrade", banner)
                          ELSE [Resp(302, "-", "", "checkout") EXCEPT
                                  !.loc = "checkout_url", !.banner = banner]

----------------------------------------------------------------------------
(* Inputs *)

\* a payload with customer.email = e and status = st (None: key left out)
P(e, st) ==
    (IF e = None THEN EmptyDict ELSE [customer |-> Dict([email |-> e])])
    @@ (IF st = None THEN EmptyDict ELSE [status |-> st])

HReq(h, b) == [op |-> "kiwify_webhook", headers |-> h, body |-> b]
LReq(q, x, b) == [op |-> "webhook", query_secret |-> q, x_kiwify_secret |-> x, body |-> b]
BReq(sess, gq, sq) == [op |-> "budgets_new_post", sess |-> sess, gate_q |-> gq, svc_q |-> sq]

\* a correct signature of body b, in the provider's usual header
Signed(b) == [h \in {"x-kiwify-signature"} |-> Header(<<>>, hmac_sha256(K1, b))]

Hdr(name, pre, mac) == [h \in {name} |-> Header(pre, mac)]

HeaderCases(b) ==
    LET good == hmac_sha256(K1, b)
        badkey == hmac_sha256(K2, b)
        other == hmac_sha256(K1, NonObjectBody)
    IN  { NoHeaders,
          Signed(b),
          Hdr("x-signature", W_sha256, good),
          Hdr("x-hub-signature-256", W_SHA256, good),
          Hdr("kiwify-signature", <<" ">>, good),
          Hdr("x-kiwify-signature", <<>>, badkey),
          Hdr("x-kiwify-signature", <<>>, other),
          Hdr("x-kiwify-signature", <<>>, NoMac) @@ Hdr("x-signature", <<>>, good),
          Hdr("x-kiwify-signature", <<>>, badkey) @@ Hdr("x-signature", <<>>, good),
          Hdr("x-kiwify-signature", W_md5, good),
          Hdr("x-kiwify-signature", S_blank, NoMac) }

Statuses ==
    {None, Str(W_paid), Str(S_PaidSp), Str(W_refunded), Str(W_refund),
     Str(W_chargeback), Str(W_canceled), Str(W_cancelled), Str(W_expired),
     Str(W_inactive), Str(W_falha), Str(W_failed), Str(S_payfail),
     Str(S_subcancel), Str(S_trial), Str(S_waiting), Str(S_blank)}

CoreBodies ==
    {ObjectBody(P(Str(E_a), Str(W_paid))), ObjectBody(P(Str(E_a), Str(W_refunded))),
     ObjectBody(P(Str(E_b), Str(W_paid))), ObjectBody(P(Str(E_c), Str(W_paid)))}

RichBodies ==
    {ObjectBody(P(Str(E_a), st)) : st \in Statuses}
    \cup {ObjectBody(P(e, st)) : e \in {Str(E_aUpSp), Str(E_b), Str(E_c), Str(E_noat), Num, None},
                                 st \in {Str(W_paid), Str(W_refunded), Str(S_trial)}}
    \cup {ObjectBody(P(Str(E_c), Num)), MalformedBody, NonObjectBody}

LegacyBodies ==
    {ObjectBody(P(e, st)) : e \in {Str(E_a), Str(E_c)},
                            st \in {None, Str(W_paid), Str(W_refunded), Str(W_inactive),
                                    Str(S_trial), Str(S_blank)}}
    \cup {ObjectBody(P(e, Str(W_paid))) : e \in {Str(E_aUpSp), Str(E_b), Num, None}}
    \cup {ObjectBody(P(Str(E_a), Num)), ObjectBody(P(Str(E_c), Num)),
          MalformedBody, NonObjectBody}

CoreHmacRequests == UNION {{HReq(NoHeaders, b), HReq(Signed(b), b)} : b \in CoreBodies}

HmacRequests ==
    {HReq(h, ObjectBody(P(Str(E_a), Str(W_paid)))) :
        h \in HeaderCases(ObjectBody(P(Str(E_a), Str(W_paid))))}
    \cup {HReq(NoHeaders, b) : b \in CoreBodies \cup {MalformedBody}}
    \cup {HReq(Hdr("x-signature", <<>>, hmac_sha256(K2, b)), b) : b \in CoreBodies \cup {MalformedBody}}
    \cup {HReq(Signed(b), b) : b \in RichBodies}

CoreLegacyRequests == {LReq(q, <<>>, b) : q \in {<<>>, K1}, b \in CoreBodies}

LegacyRequests ==
    {LReq(q, x, b) : q \in {<<>>, K1, K2}, x \in {<<>>, K1},
                     b \in {ObjectBody(P(Str(E_a), Str(W_paid)))}}
    \cup {LReq(K1, <<>>, b) : b \in LegacyBodies}

SReq(e, p) == [op |-> "signup_action", email |-> e, password |-> p]
LgReq(e, p) == [op |-> "login_action", email |-> e, password |-> p]
PReq(op, sess, gq) == [op |-> op, sess |-> sess, gate_q |-> gq]
StReq(sess, id, st) ==
    [op |-> "budgets_status_post", sess |-> sess, gate_q |-> "ok", budget_id |-> id,
     status |-> st]

SignupRequests ==
    {SReq(e, p) : e \in {E_c, E_cUpSp, E_aUpSp, S_blank}, p \in {PW1Sp, <<>>}}

LoginRequests == {LgReq(e, p) : e \in {E_aUpSp, E_c, E_noat}, p \in {PW1Sp, PW2}}

PageRequests ==
    {PReq(op, s, g) : op \in {"upgrade_page", "checkout"},
                      s \in {NoSession, TextSession, Session(1), Session(3)},
                      g \in {"ok", "raise"}}

AccountStatusRequests ==
    {StReq(Session(1), 1, T_FechadoSp), StReq(Session(2), 1, T_lost),
     StReq(NoSession, 1, T_lost)}

StatusRequests ==
    {StReq(s, id, st) : s \in {NoSession, Session(1), Session(2)}, id \in {1, 9, 12},
                        st \in {T_FechadoSp, T_lost, T_pendente, T_done}}

Sessions == {NoSession, GarbageSession, TextSession, Session(1), Session(2), Session(3)}
BudgetRequests == {BReq(s, g, q) : s \in Sessions, g \in QueryOutcomes, q \in QueryOutcomes}

----------------------------------------------------------------------------
(* Specifications *)

Env(secret, allow) ==
    [KIWIFY_WEBHOOK_SECRET |-> secret, KIWIFY_ALLOW_UNSIGNED_WEBHOOKS |-> allow,
     KIWIFY_CHECKOUT_URL |-> U_checkout]

\* n budgets owned by user 1
Stock(n) == [i \in 1..n |-> Budget(1)]

InitWith(envs, counts) ==
    /\ env \in envs
    /\ users = (1 :> User(E_a, FALSE)) @@ (2 :> User(E_b, FALSE))
    /\ budgets \in {Stock(n) : n \in counts}
    /\ req = NoReq
    /\ resp = NoResp
    /\ pc = [w \in Workers |-> "idle"]
    /\ who = [w \in Workers |-> 0]
    /\ chk = [w \in Workers |-> <<>>]
    /\ rev = NoRev

\* the application: budget creation and both webhook routers
Init == InitWith({Env(K1, <<>>)}, {8, 10})

Next ==
    \/ \E r \in BudgetRequests : budgets_new_post(r)
    \/ \E r \in CoreHmacRequests : kiwify_webhook(r)
    \/ \E r \in CoreLegacyRequests : webhook_kiwify_webhook(r)

Spec == Init /\ [][Next]_vars

\* the two webhook routers under every configuration and notification shape
InitHook ==
    InitWith({Env(K1, <<>>), Env(K1, W_one), Env(K1, W_true), Env(<<>>, <<>>)}, {10})

NextHook ==
    \/ \E r \in HmacRequests : kiwify_webhook(r)
    \/ \E r \in LegacyRequests : webhook_kiwify_webhook(r)

SpecHook == InitHook /\ [][NextHook]_vars

\* creation requests handled concurrently
InitConc == InitWith({Env(K1, <<>>)}, {8, 9, 10})

NextConc ==
    \/ \E w \in Workers, u \in DOMAIN users : budgets_new_post_gate(w, u)
    \/ \E w \in Workers : budgets_new_post_check(w)
    \/ \E w \in Workers : budgets_new_post_create(w)

SpecConc == InitConc /\ [][NextConc]_vars

\* notifications handled concurrently, and one at a time when no other is
\* in flight
RaceRequests ==
    {HReq(Signed(b), b) : b \in {ObjectBody(P(Str(E_a), Str(W_paid))),
                                  ObjectBody(P(Str(E_a), Str(W_refunded))),
                                  ObjectBody(P(Str(E_b), Str(W_paid))),
                                  ObjectBody(P(Str(E_c), Str(W_paid))),
                                  ObjectBody(P(Str(E_a), Str(S_trial)))}}

InitRace ==
    /\ env = Env(K1, <<>>)
    /\ users \in {<<User(E_a, p), User(E_b, FALSE)>> : p \in BOOLEAN}
    /\ budgets = Stock(10)
    /\ req = NoReq
    /\ resp = NoResp
    /\ pc = [w \in Workers |-> "idle"]
    /\ who = [w \in Workers |-> 0]
    /\ chk = [w \in Workers |-> NoTxn]
    /\ rev = NoRev

NextRace ==
    \/ \E w \in Workers, r \in RaceRequests : kiwify_webhook_read(w, r)
    \/ \E w \in Workers : kiwify_webhook_write(w)
    \/ \E r \in RaceRequests : (\A w \in Workers : pc[w] = "idle") /\ kiwify_webhook(r)

SpecRace == InitRace /\ [][NextRace]_vars

\* field extraction: payloads that carry the email and the status at several
\* places at once
Em(e) == Dict([email |-> e])

EmailShapes ==
    { [customer |-> Em(Str(E_a)), buyer |-> Em(Str(E_b))],
      [customer |-> Em(Str(E_noat)), buyer |-> Em(Str(E_b))],
      [customer |-> Em(Num), email |-> Str(E_b)],
      [Customer |-> Em(Str(E_a)), buyer |-> Em(Str(E_b))],
      [Buyer |-> Em(Str(E_b)), email |-> Str(E_a)],
      [buyer |-> Em(Str(E_b)), email |-> Str(E_a)],
      [customer |-> Str(E_a), email |-> Str(E_b)],
      [email |-> Str(E_aUpSp)],
      [customer |-> Em(Str(E_noat))] }

StatusShapes ==
    { [status |-> Str(S_trial), event |-> Str(W_paid)],
      [status |-> Str(S_blank), event |-> Str(W_paid)],
      [status |-> Str(<<>>), order_status |-> Str(W_refunded)],
      [status |-> Num, payment_status |-> Str(W_paid)],
      [subscription_status |-> Str(W_refunded), type |-> Str(W_paid)],
      [order_status |-> Str(S_PaidSp), payment_status |-> Str(W_refunded)],
      [event |-> Str(W_refunded)],
      [type |-> Str(W_paid)],
      [type |-> Null] }

ExtractRequests ==
    {HReq(Signed(ObjectBody(e @@ st)), ObjectBody(e @@ st)) :
        e \in EmailShapes, st \in StatusShapes}

InitExtract == InitWith({Env(K1, <<>>)}, {10})

NextExtract == \E r \in ExtractRequests : kiwify_webhook(r)

SpecExtract == InitExtract /\ [][NextExtract]_vars

\* the application as main.py assembles it: the auth router, the app router
\* and the shared-secret webhook router
MainHookRequests ==
    {LReq(q, <<>>, ObjectBody(P(Str(E_a), Str(W_paid)))) : q \in {K1, K2}}
    \cup {LReq(K1, <<>>, ObjectBody(P(Str(E_a), st))) :
            st \in {None, Str(W_refunded), Str(W_cancelled), Str(W_inactive), Str(S_trial)}}
    \cup {LReq(<<>>, K1, ObjectBody(P(Str(E_b), None))),
          LReq(K1, <<>>, ObjectBody(P(Str(E_c), None)))}

InitMain ==
    /\ env = Env(K1, <<>>)
    /\ users \in {<<User(E_a, p), User(E_b, FALSE)>> : p \in BOOLEAN}
    /\ budgets = Stock(9) \o <<Budget(2)>>
    /\ req = NoReq
    /\ resp = NoResp
    /\ pc = [w \in Workers |-> "idle"]
    /\ who = [w \in Workers |-> 0]
    /\ chk = [w \in Workers |-> <<>>]
    /\ rev = NoRev

NextMain ==
    \/ \E r \in SignupRequests : signup_action(r)
    \/ \E r \in LoginRequests : login_action(r)
    \/ logout([op |-> "logout"])
    \/ \E r \in AccountStatusRequests : budgets_status_post(r)
    \/ \E r \in {BReq(Session(1), "ok", "ok"), BReq(Session(3), "raise", "ok")} :
          budgets_new_post(r)
    \/ \E r \in MainHookRequests : webhook_kiwify_webhook(r)

SpecMain == InitMain /\ [][NextMain]_vars

\* budgets: creation and status updates by two users
InitBudget ==
    /\ env = Env(K1, <<>>)
    /\ users = <<User(E_a, FALSE), User(E_b, FALSE)>>
    /\ budgets = Stock(8) \o <<Budget(2)>>
    /\ req = NoReq
    /\ resp = NoResp
    /\ pc = [w \in Workers |-> "idle"]
    /\ who = [w \in Workers |-> 0]
    /\ chk = [w \in Workers |-> <<>>]
    /\ rev = NoRev

NextBudget ==
    \/ \E r \in StatusRequests : budgets_status_post(r)
    \/ \E r \in {BReq(Session(u), "ok", "ok") : u \in {1, 2}} : budgets_new_post(r)

SpecBudget == InitBudget /\ [][NextBudget]_vars

\* signups handled concurrently, with logins and notifications in between
RaceSignups ==
    {SReq(e, p) : e \in {E_c, E_cUpSp, E_b, E_aUpSp}, p \in {PW1Sp, PW2}}
    \cup {SReq(S_blank, PW1Sp)}

SignupHookRequests ==
    {LReq(K1, <<>>, ObjectBody(P(Str(e), Str(W_paid)))) : e \in {E_a, E_c}}

InitSignup ==
    /\ env = Env(K1, <<>>)
    /\ users = <<User(E_a, FALSE)>>
    /\ budgets = Stock(2)
    /\ req = NoReq
    /\ resp = NoResp
    /\ pc = [w \in Workers |-> "idle"]
    /\ who = [w \in Workers |-> 0]
    /\ chk = [w \in Workers |-> NoForm]
    /\ rev = NoRev

NextSignup ==
    \/ \E w \in Workers, r \in RaceSignups : signup_check(w, r)
    \/ \E w \in Workers : signup_commit(w)
    \/ \E r \in {LgReq(E_c, PW1Sp), LgReq(E_c, PW2)} : login_action(r)
    \/ \E r \in SignupHookRequests : webhook_kiwify_webhook(r)

SpecSignup == InitSignup /\ [][NextSignup]_vars

\* accounts: signup, login, logout, the upgrade pages, budgets and
\* notifications for accounts old and new
AccountHookRequests ==
    {HReq(Signed(b), b) : b \in {ObjectBody(P(Str(E_a), Str(W_paid))),
                                  ObjectBody(P(Str(E_cUpSp), Str(W_paid))),
                                  ObjectBody(P(Str(E_c), Str(W_refunded)))}}
    \cup {LReq(K1, <<>>, ObjectBody(P(Str(E_cUpSp), Str(W_paid))))}

InitAccounts ==
    /\ env \in {Env(K1, <<>>), [Env(K1, <<>>) EXCEPT !.KIWIFY_CHECKOUT_URL = <<>>]}
    /\ users = <<User(E_a, FALSE), User(E_b, FALSE)>>
    /\ budgets = Stock(9) \o <<Budget(2)>>
    /\ req = NoReq
    /\ resp = NoResp
    /\ pc = [w \in Workers |-> "idle"]
    /\ who = [w \in Workers |-> 0]
    /\ chk = [w \in Workers |-> <<>>]
    /\ rev = NoRev

NextAccounts ==
    \/ \E r \in SignupRequests : signup_action(r)
    \/ \E r \in LoginRequests : login_action(r)
    \/ logout([op |-> "logout"])
    \/ \E r \in PageRequests : upgrade_page(r)
    \/ \E r \in PageRequests : checkout(r)
    \/ \E r \in AccountStatusRequests : budgets_status_post(r)
    \/ \E r \in {BReq(Session(1), "ok", "ok"), BReq(Session(3), "raise", "ok")} :
          budgets_new_post(r)
    \/ \E r \in AccountHookRequests : kiwify_webhook(r)
    \/ \E r \in AccountHookRequests : webhook_kiwify_webhook(r)

SpecAccounts == InitAccounts /\ [][NextAccounts]_vars

\* the gate seen by an account of either entitlement holding any number of
\* budgets
GateRequests ==
    {BReq(s, g, q) : s \in {NoSession, Session(1)}, g \in QueryOutcomes, q \in QueryOutcomes}

InitGate ==
    /\ env = Env(K1, <<>>)
    /\ users \in {(1 :> User(E_a, p)) @@ (2 :> User(E_b, FALSE)) : p \in BOOLEAN}
    /\ budgets \in {Stock(n) : n \in 0..MaxBudgets}
    /\ req = NoReq
    /\ resp = NoResp
    /\ pc = [w \in Workers |-> "idle"]
    /\ who = [w \in Workers |-> 0]
    /\ chk = [w \in Workers |-> <<>>]
    /\ rev = NoRev

NextGate == \E r \in GateRequests : budgets_new_post(r)

SpecGate == InitGate /\ [][NextGate]_vars

----------------------------------------------------------------------------
(* Properties *)

IsCreation(r, u) == r.op = "budgets_new_post" /\ r.sess = Session(u)

\* C1: a creation request of a non-entitled account that owns exactly 10
\* budgets is answered with the limit-reached response and the account
\* still owns 10 budgets afterwards, on every path through the middleware
\* and the handler.
C1_CeilingEnforced ==
    [][\A u \in DOMAIN users :
          (IsCreation(req', u) /\ ~users[u].is_pro
             /\ CountBudgets(u) = FREE_LIMIT_TOTAL_BUDGETS)
          => /\ resp'.code = 403
             /\ resp'.msg = "limit_reached"
             /\ budgets' = budgets]_vars

\* C2: while an account is not entitled, it never owns more than 10 budgets,
\* however concurrently handled creation requests interleave.
C2_CeilingUnderConcurrency ==
    \A u \in DOMAIN users :
        ~users[u].is_pro => CountBudgets(u) <= FREE_LIMIT_TOTAL_BUDGETS

\* C3: when neither count query of a creation request of a non-entitled
\* account yields the usage count (each raises or yields no value), no
\* budget is persisted.
C3_FailClosed ==
    [][\A u \in DOMAIN users :
          (IsCreation(req', u) /\ ~users[u].is_pro
             /\ req'.gate_q # "ok" /\ req'.svc_q # "ok")
          => budgets' = budgets]_vars

C5_Reversibility ==
    /\ rev.stage >= 2 => ~rev.mid
    /\ rev.stage = 3 => (rev.fin /\ users[1].is_pro)

\* C6: an authenticated activating notification for an existing account
\* leaves its entitlement true, and handling the same notification again
\* changes neither the accounts nor the answer.
C6_Idempotence ==
    [][\A u \in DOMAIN users :
          (req'.op = "kiwify_webhook" /\ Authenticated(req') /\ Names(req', u)
             /\ Activating(req'))
          => /\ users'[u].is_pro
             /\ req = req' => (users' = users /\ resp' = resp /\ budgets' = budgets)]_vars

C6_Witness ==
    /\ req.op = "kiwify_webhook" /\ Authenticated(req) /\ Names(req, 1)
    /\ Activating(req)
    /\ rev.stage = 1
    /\ resp.is_pro = "true" /\ users[1].is_pro

\* C7: a correctly signed notification with the email of an existing account
\* and status "paid" makes the account entitled whatever its budget count,
\* is answered ok=true, is_pro=true, and a creation request of an entitled
\* account persists one budget whatever the count.
C7_EndToEndActivation ==
    [][\A u \in DOMAIN users :
          /\ (req'.op = "kiwify_webhook" /\ CorrectlySigned(req') /\ Names(req', u)
                /\ ReqStatus(req') = Str(W_paid))
             => (users'[u].is_pro /\ resp'.code = 200 /\ resp'.ok = "true"
                   /\ resp'.is_pro = "true")
          /\ (IsCreation(req', u) /\ users[u].is_pro)
             => (budgets' = Append(budgets, Budget(u)) /\ resp'.loc = "/app")]_vars

C7_Witness ==
    /\ IsCreation(req, 1) /\ users[1].is_pro
    /\ CountBudgets(1) > FREE_LIMIT_TOTAL_BUDGETS
    /\ resp.loc = "/app"

\* C8: an authenticated notification for an existing account whose status
\* is, or contains, a word of the deactivate vocabulary leaves the account
\* not entitled.
C8_DeactivationClassified ==
    [][\A u \in DOMAIN users :
          (req'.op = "kiwify_webhook" /\ Authenticated(req') /\ Names(req', u)
             /\ HasWord(req', SpecDeactivate))
          => ~users'[u].is_pro]_vars

\* C9: an authenticated notification with an extractable email whose status
\* is absent or matches neither vocabulary changes no account and is
\* acknowledged 200 ok=true with the message event_ignored.
C9_UnknownStatusIgnored ==
    [][(req'.op = "kiwify_webhook" /\ Authenticated(req')
          /\ IsStr(ReqEmail(req')) /\ contains(W_at, ReqEmail(req').v)
          /\ ~HasWord(req', SpecActivate \cup SpecDeactivate))
          => (users' = users /\ resp'.code = 200 /\ resp'.ok = "true"
                /\ resp'.msg = "event_ignored")]_vars

C9_Witness ==
    /\ req.op = "kiwify_webhook" /\ Authenticated(req)
    /\ ReqEmail(req) = Str(E_a) /\ ReqStatus(req) = Str(S_trial)
    /\ resp.msg = "event_ignored"
    /\ users[2].is_pro

\* the endpoint acts on the status: an activating or deactivating word for
\* the HMAC webhook, a paid keyword or no status for the shared-secret one
ActsOn(r) ==
    IF r.op = "kiwify_webhook" THEN HasWord(r, SpecActivate \cup SpecDeactivate)
    ELSE \/ ReqStatus(r) = None
         \/ IsStr(ReqStatus(r)) /\ strip(ReqStatus(r).v) = <<>>
         \/ HasWord(r, {W_paid, W_approved, W_aprovado, W_pago, W_completed, W_success})

\* C10 as stated: every authenticated notification whose email matches no
\* account is acknowledged with the reason user_not_found and changes nothing.
C10_Original ==
    [][(IsWebhook(req') /\ Authenticated(req') /\ WellFormed(req') /\ NamesNobody(req'))
          => (users' = users /\ resp'.code = 200 /\ resp'.ok = "true"
                /\ resp'.msg = "user_not_found")]_vars

\* C10: an authenticated notification whose email matches no account changes
\* no account and creates none; it is acknowledged 200 ok=true, with the
\* reason user_not_found when the endpoint acts on its status.
C10_UnknownSubject ==
    [][(IsWebhook(req') /\ Authenticated(req') /\ WellFormed(req') /\ NamesNobody(req'))
          => /\ users' = users
             /\ resp'.code = 200 /\ resp'.ok = "true"
             /\ ActsOn(req') => resp'.msg = "user_not_found"]_vars

C10_Witness ==
    /\ IsWebhook(req) /\ Authenticated(req) /\ WellFormed(req) /\ NamesNobody(req)
    /\ ReqStatus(req) = Str(W_refunded)
    /\ resp.msg = "user_not_found"
    /\ users[1].is_pro

\* a webhook request whose body is a JSON object without any email
NoEmail(r) == Plain(r) /\ WellFormed(r) /\ ReqEmail(r) = None

\* C11: an authenticated notification with a parseable body that carries no
\* email is answered 400, never a success, and changes no account.
C11_MissingEmailRejected ==
    [][(IsWebhook(req') /\ Authenticated(req') /\ NoEmail(req'))
          => (resp'.code = 400 /\ users' = users)]_vars

\* C12: a request that passes authentication with a body that is not a JSON
\* object (unparseable, or JSON of another kind) is answered 400 and changes
\* no account; a request that fails authentication (the secret being
\* configured) is answered 401 whatever its body.
C12_MalformedBodyRejected ==
    [][IsWebhook(req')
          => /\ (Authenticated(req') /\ req'.body.kind # "object")
                  => (resp'.code = 400 /\ users' = users)
             /\ (~Authenticated(req') /\ Secret # <<>>)
                  => (resp'.code = 401 /\ users' = users)]_vars

\* C13: a request to the HMAC webhook without any signature header is, with
\* the allow-unsigned flag set to "1", processed as an authenticated one (the
\* entitlement its status classifies to is applied to the account it names);
\* with the flag unset or of any other value it is answered 401 and changes
\* no account.
C13_UnsignedBypass ==
    [][(req'.op = "kiwify_webhook" /\ SigHeaders(req') = {})
          => IF strip(env.KIWIFY_ALLOW_UNSIGNED_WEBHOOKS) = W_one
             THEN \A u \in DOMAIN users :
                     (Names(req', u) /\ IsStr(ReqStatus(req'))
                        /\ status_to_pro(strip(ReqStatus(req').v)) # "None")
                     => /\ users'[u].is_pro
                             = (status_to_pro(strip(ReqStatus(req').v)) = "True")
                        /\ resp'.code = 200 /\ resp'.msg = "applied"
             ELSE resp'.code = 401 /\ users' = users]_vars

C13_Witness ==
    /\ req.op = "kiwify_webhook" /\ SigHeaders(req) = {}
    /\ strip(env.KIWIFY_ALLOW_UNSIGNED_WEBHOOKS) = W_one
    /\ Names(req, 2) /\ ReqStatus(req) = Str(W_paid)
    /\ resp.msg = "applied" /\ users[2].is_pro

C15_GateDecisionRecord ==
    \A u \in DOMAIN users :
        LET e == users[u].is_pro
            n == CountBudgets(u)
            rem == IF 10 - n > 0 THEN 10 - n ELSE 0
            info == get_gate_info(u, "ok")
        IN  /\ info.is_pro = e
            /\ info.remaining = IF e THEN {} ELSE {rem}
            /\ info.near_limit = (~e /\ 0 < rem /\ rem <= 2)
            /\ info.at_limit = (~e /\ rem = 0)
            /\ ~(info.near_limit /\ info.at_limit)
            /\ (~e /\ n = 8) => (info.near_limit /\ info.remaining = {2})

C15_Witness ==
    /\ IsCreation(req, 1) /\ req.gate_q = "ok"
    /\ ~users[1].is_pro /\ CountBudgets(1) = 8
    /\ get_gate_info(1, "ok").near_limit
    /\ get_gate_info(1, "ok").remaining = {2}
    /\ resp.loc = "/app"

\* C16: for an entitled account, whatever its budget count, the gate reports
\* remaining = null, at_limit = false, near_limit = false, and every creation
\* request of the account is permitted and persists exactly one new budget.
C16_ProBypass ==
    [][\A u \in DOMAIN users :
          users[u].is_pro
          => /\ get_gate_info(u, "ok").remaining = {}
             /\ ~get_gate_info(u, "ok").at_limit
             /\ ~get_gate_info(u, "ok").near_limit
             /\ IsCreation(req', u)
                  => (budgets' = Append(budgets, Budget(u)) /\ resp'.loc = "/app"
                        /\ resp'.banner = "")]_vars

C16_Witness ==
    /\ IsCreation(req, 1) /\ users[1].is_pro
    /\ Len(budgets) > FREE_LIMIT_TOTAL_BUDGETS
    /\ CountBudgets(1) = Len(budgets)
    /\ get_gate_info(1, "ok").remaining = {}
    /\ resp.code = 303 /\ resp.loc = "/app" /\ resp.banner = ""

\* account 1 was made entitled and then not entitled by notifications, and
\* no activating notification has named it since
Downgraded == rev.stage = 2 /\ ~rev.mid /\ ~users[1].is_pro

\* C17: when a notification turns an entitled account holding n budgets into
\* a non-entitled one, the gate at once reports the free state of n (at_limit
\* exactly when n >= 10), and every later creation request of the account,
\* while it holds 10 or more budgets and stays non-entitled, is refused.
C17_CeilingAfterDowngrade ==
    [][/\ \A u \in DOMAIN users :
             (IsWebhook(req') /\ users[u].is_pro /\ ~users'[u].is_pro)
             => /\ get_gate_info(u, "ok")'.at_limit = (CountBudgets(u) >= 10)
                /\ ~get_gate_info(u, "ok")'.is_pro
       /\ (IsCreation(req', 1) /\ Downgraded /\ CountBudgets(1) >= 10)
             => (budgets' = budgets /\ resp'.loc # "/app")]_vars

\* the middleware of a request raises: the uid of its session is not a
\* number, or the gate's queries fail
GateRaises(r) ==
    /\ r.op = "budgets_new_post"
    /\ r.sess.kind = "text" \/ (r.sess.kind = "uid" /\ r.gate_q = "raise")

\* C18: when the premium-gate middleware raises while it resolves the user or
\* computes the gate info of a request under /app, it answers nothing itself:
\* the banner is empty and the answer is the handler's (a redirect, or the
\* handler's own failure).
C18_AdvisoryGateFailsOpen ==
    [][GateRaises(req')
          => /\ resp'.banner = ""
             /\ resp'.code # 403 /\ resp'.msg # "limit_reached"
             /\ resp'.code \in {303, 500}
             /\ resp'.code = 500 => req'.svc_q = "raise"
             /\ req'.sess.kind = "text" => (resp'.loc = "/login" /\ budgets' = budgets)]_vars

C18_Witness ==
    /\ GateRaises(req) /\ req.sess = Session(1) /\ req.svc_q = "ok"
    /\ ~users[1].is_pro
    /\ resp.code = 303 /\ resp.loc = "/app" /\ resp.banner = ""

C20_AtMostOneWrite ==
    [][IsWebhook(req')
          => /\ DOMAIN users' = DOMAIN users
             /\ budgets' = budgets
             /\ IF resp'.msg = "applied"
                THEN \E u \in DOMAIN users :
                        /\ Names(req', u)
                        /\ users'[u].email = users[u].email
                        /\ \A v \in DOMAIN users \ {u} : users'[v] = users[v]
                ELSE users' = users]_vars

C20_Witness ==
    /\ req.op = "webhook" /\ Authenticated(req) /\ Names(req, 1)
    /\ resp.msg = "applied"
    /\ users[1].is_pro /\ ~users[2].is_pro

\* C21: an applied notification naming the email of account A changes the
\* entitlement of A only: the entitlement of every other account, and the
\* budgets of every account (A's count included), are unchanged.
C21_CrossAccountIsolation ==
    [][\A a \in DOMAIN users :
          (IsWebhook(req') /\ Authenticated(req') /\ Names(req', a)
             /\ resp'.msg = "applied")
          => /\ \A v \in DOMAIN users \ {a} : users'[v].is_pro = users[v].is_pro
             /\ \A v \in DOMAIN users : users'[v].email = users[v].email
             /\ budgets' = budgets
             /\ CountBudgets(a)' = CountBudgets(a)]_vars

C21_Witness ==
    /\ req.op = "kiwify_webhook" /\ Authenticated(req) /\ Names(req, 2)
    /\ resp.msg = "applied" /\ resp.is_pro = "false"
    /\ users[1].is_pro /\ ~users[2].is_pro
    /\ CountBudgets(1) = 10

\* C22: signup creates the account with entitlement false and leaves every
\* existing account as it was; login, logout, budget creation, budget status
\* update and the upgrade and checkout pages (with the gate query the
\* middleware makes for them) leave every account unchanged.
C22_EntitlementWriters ==
    [][/\ req'.op = "signup_action"
             => /\ \A u \in DOMAIN users : users'[u] = users[u]
                /\ \A u \in DOMAIN users' \ DOMAIN users : ~users'[u].is_pro
       /\ req'.op \in {"login_action", "logout", "budgets_new_post",
                       "budgets_status_post", "upgrade_page", "checkout"}
             => users' = users]_vars

C22_Witness ==
    /\ req.op = "checkout" /\ req.sess = Session(3)
    /\ resp.code = 302
    /\ Len(users) = 3 /\ ~users[3].is_pro /\ users[1].is_pro

\* C23: when notifications for the same account are handled concurrently,
\* each a read of the row followed by a write and commit, every one of them
\* completes with the applied answer, its commit leaves the account's flag
\* at the value it wrote or at the value another request had stored, no
\* other row changes, and a notification handled afterwards with no other in
\* flight leaves the flag at the value its own status classifies to.
C23_LastWriteWins ==
    [][/\ \A w \in Workers :
             (pc[w] = "loaded" /\ pc'[w] = "idle")
             => /\ resp'.code = 200 /\ resp'.msg = "applied"
                /\ users'[chk[w].uid].is_pro \in {chk[w].value, users[chk[w].uid].is_pro}
                /\ \A v \in DOMAIN users \ {chk[w].uid} : users'[v] = users[v]
       /\ \A u \in DOMAIN users :
             (/\ \A w \in Workers : pc[w] = "idle" /\ pc'[w] = "idle"
              /\ req'.op = "kiwify_webhook" /\ Authenticated(req') /\ Names(req', u)
              /\ IsStr(ReqStatus(req'))
              /\ status_to_pro(strip(ReqStatus(req').v)) # "None")
             => users'[u].is_pro = (status_to_pro(strip(ReqStatus(req').v)) = "True")]_vars

\* an activating and a deactivating notification for account 1 overlapped
\* and both have completed
C23_Witness ==
    /\ \A w \in Workers : pc[w] = "idle" /\ chk[w].overlapped /\ chk[w].uid = 1
    /\ chk[1].value # chk[2].value
    /\ resp.msg = "applied"
    /\ users[1].is_pro

\* C24: every stored email is trimmed and lowercased; an authenticated
\* notification the endpoint acts on is applied to the account whose email
\* equals the notification's email trimmed and lowercased, and to no other;
\* when no account's email equals it, no account changes.
C24_NormalizedEmailMatch ==
    [][/\ \A u \in DOMAIN users' : users'[u].email = lower(strip(users'[u].email))
       /\ (IsWebhook(req') /\ Authenticated(req') /\ WellFormed(req')
             /\ IsStr(ReqEmail(req')) /\ contains(W_at, ReqEmail(req').v)
             /\ ActsOn(req'))
          => LET e == lower(strip(ReqEmail(req').v))
                 hit == {u \in DOMAIN users : users[u].email = e}
             IN  /\ Cardinality(hit) <= 1
                 /\ \A v \in DOMAIN users \ hit : users'[v] = users[v]
                 /\ hit = {} => (users' = users /\ resp'.msg = "user_not_found")
                 /\ \A u \in hit :
                       /\ resp'.msg = "applied"
                       /\ users'[u].is_pro =
                            IF req'.op = "webhook" THEN TRUE
                            ELSE status_to_pro(strip(ReqStatus(req').v)) = "True"]_vars

C24_Witness ==
    /\ req.op = "kiwify_webhook" /\ Authenticated(req)
    /\ ReqEmail(req) = Str(E_cUpSp)
    /\ resp.msg = "applied"
    /\ Len(users) = 3 /\ users[3].email = E_c /\ users[3].is_pro

\* the value at the first of the paths that holds a string containing "@"
FirstEmail(payload, paths) ==
    LET at(i) == Walk(Dict(payload), paths[i])
        hits == {i \in 1..Len(paths) : IsStr(at(i)) /\ contains(W_at, at(i).v)}
    IN  IF hits = {} THEN None ELSE at(CHOOSE i \in hits : \A j \in hits : i <= j)

\* the value of the first status key that holds a string which is not empty
\* (blankToo: a string of spaces only counts as not empty)
FirstStatus(payload, blankToo) ==
    LET keys == <<"status", "order_status", "payment_status",
                  "subscription_status", "event", "type">>
        ok(i) == /\ keys[i] \in DOMAIN payload
                 /\ IsStr(payload[keys[i]])
                 /\ payload[keys[i]].v # <<>>
                 /\ blankToo \/ strip(payload[keys[i]].v) # <<>>
        hits == {i \in 1..Len(keys) : ok(i)}
    IN  IF hits = {} THEN <<>> ELSE payload[keys[CHOOSE i \in hits : \A j \in hits : i <= j]].v

\* the handler used email e and status st of the notification
UsedFields(e, st) ==
    LET d == status_to_pro(lower(strip(st)))
        hit == {u \in DOMAIN users : users[u].email = lower(strip(e.v))}
    IN  IF e = None THEN resp'.code = 400 /\ resp'.msg = "missing_email" /\ users' = users
        ELSE IF d = "None" THEN resp'.msg = "event_ignored" /\ users' = users
        ELSE IF hit = {} THEN resp'.msg = "user_not_found" /\ users' = users
        ELSE /\ resp'.msg = "applied"
             /\ \A u \in hit : users'[u].is_pro = (d = "True")
             /\ \A u \in DOMAIN users \ hit : users'[u] = users[u]

\* C25 as stated: the email is taken from the first of customer.email,
\* buyer.email, email that holds a string containing "@", the status from the
\* first of the six keys that holds a non-empty string.
C25_Original ==
    [][(req'.op = "kiwify_webhook" /\ Authenticated(req') /\ req'.body.kind = "object")
          => UsedFields(FirstEmail(req'.body.payload,
                                   <<<<"customer", "email">>, <<"buyer", "email">>,
                                     <<"email">>>>),
                        FirstStatus(req'.body.payload, TRUE))]_vars

\* C25: the email is taken from the first of customer.email, Customer.email,
\* buyer.email, Buyer.email, email that holds a string containing "@"; the
\* status from the first of status, order_status, payment_status,
\* subscription_status, event, type that holds a string with a character
\* other than white space; later keys are not consulted, even when the status
\* found classifies as ignore.
C25_FirstMatchWins ==
    [][(req'.op = "kiwify_webhook" /\ Authenticated(req') /\ req'.body.kind = "object")
          => UsedFields(FirstEmail(req'.body.payload,
                                   <<<<"customer", "email">>, <<"Customer", "email">>,
                                     <<"buyer", "email">>, <<"Buyer", "email">>,
                                     <<"email">>>>),
                        FirstStatus(req'.body.payload, FALSE))]_vars

C25_Witness ==
    /\ req.op = "kiwify_webhook" /\ Authenticated(req)
    /\ req.body.payload = [customer |-> Em(Str(E_noat)), buyer |-> Em(Str(E_b))]
                           @@ [status |-> Str(S_trial), event |-> Str(W_paid)]
    /\ resp.msg = "event_ignored"
    /\ ~users[2].is_pro /\ users[1].is_pro

\* C26: in the application as main.py assembles it no request reaches the
\* HMAC webhook, and an account that is entitled stays entitled whatever
\* request is handled; an authorized notification with a refunded, cancelled
\* or inactive status is answered as ignored (not_paid) and changes nothing.
C26_MountedWebhookMonotone ==
    [][/\ req'.op # "kiwify_webhook"
       /\ \A u \in DOMAIN users : users[u].is_pro => users'[u].is_pro
       /\ (req'.op = "webhook" /\ Authenticated(req')
             /\ ReqStatus(req') \in {Str(W_refunded), Str(W_cancelled), Str(W_inactive)})
          => (resp'.code = 200 /\ resp'.msg = "not_paid" /\ users' = users)]_vars

C26_Witness ==
    /\ req.op = "webhook" /\ Authenticated(req) /\ Names(req, 1)
    /\ ReqStatus(req) = Str(W_refunded)
    /\ resp.msg = "not_paid"
    /\ users[1].is_pro

\* C27: in the shared-secret webhook an authorized notification that names
\* the email of an existing account and carries no status at all sets that
\* account's entitlement to true.
C27_AbsentStatusActivates ==
    [][\A u \in DOMAIN users :
          (req'.op = "webhook" /\ Authenticated(req') /\ Names(req', u)
             /\ ReqStatus(req') = None)
          => (users'[u].is_pro /\ resp'.code = 200 /\ resp'.msg = "applied")]_vars

C27_Witness ==
    /\ req.op = "webhook" /\ Authenticated(req) /\ Names(req, 2)
    /\ ReqStatus(req) = None
    /\ resp.msg = "applied" /\ resp.key = "pro_activated_for"
    /\ users[2].is_pro

\* C28: at most one account exists per normalized email, so a lookup by
\* email matches at most one account, also when two signups with the same
\* normalized email both passed the existence check; the signup that commits
\* second creates no account and sets no session.
C28_EmailUnique ==
    /\ [](\A u, v \in DOMAIN users : users[u].email = users[v].email => u = v)
    /\ [](\A e \in {E_a, E_b, E_c} : Cardinality(UsersByEmail(e)) <= 1)
    /\ [][\A w \in Workers :
            (pc[w] = "checked" /\ pc'[w] = "idle" /\ UsersByEmail(chk[w].email) # {})
            => (users' = users /\ resp'.session = NoSession /\ resp'.loc = "/login")]_vars

C28_Witness ==
    /\ \A w \in Workers : pc[w] = "idle" /\ chk[w].email = E_c
    /\ chk[1].password_hash # chk[2].password_hash
    /\ Cardinality(UsersByEmail(E_c)) = 1
    /\ resp.loc = "/login" /\ resp.session = NoSession

StoredStatuses == {"awaiting", "won", "lost"}

\* the stored status a submitted status stands for, "" when it stands for none
StandsFor(st) ==
    LET t == lower(strip(st))
    IN  CASE t \in {T_awaiting, T_aguardando, T_pendente} -> "awaiting"
          [] t \in {T_won, T_fechado} -> "won"
          [] t \in {T_lost, T_perdido} -> "lost"
          [] OTHER -> ""

Owns(u, id) == id \in DOMAIN budgets /\ budgets[id].user_id = u

StatusUpdateBy(r, u) == r.op = "budgets_status_post" /\ r.sess = Session(u)

CreatedAwaiting ==
    Len(budgets') > Len(budgets)
    => /\ budgets' = Append(budgets, budgets'[Len(budgets')])
       /\ budgets'[Len(budgets')].status = "awaiting"

\* C29 as stated: a status update on a budget the user does not own is
\* answered not-found whatever status it submits.
C29_Original ==
    [][\A u \in DOMAIN users :
          (StatusUpdateBy(req', u) /\ ~Owns(u, req'.budget_id))
          => (resp'.code = 404 /\ budgets' = budgets)]_vars

\* C29: every stored budget status is awaiting, won or lost; a budget is
\* created awaiting; a status update with a status that stands for none of
\* the three is rejected and changes nothing; one with a valid status by a
\* user who does not own the budget is answered not-found and changes
\* nothing; one by the owner stores the status the submitted one stands for
\* on that budget only.
C29_StatusOwnership ==
    /\ [](\A i \in DOMAIN budgets : budgets[i].status \in StoredStatuses)
    /\ [][/\ CreatedAwaiting
          /\ \A u \in DOMAIN users :
                StatusUpdateBy(req', u)
                => IF StandsFor(req'.status) = ""
                   THEN budgets' = budgets /\ resp'.code # 404 /\ resp'.msg = "invalid_status"
                   ELSE IF ~Owns(u, req'.budget_id)
                   THEN budgets' = budgets /\ resp'.code = 404
                   ELSE /\ budgets' = [budgets EXCEPT ![req'.budget_id].status =
                                                        StandsFor(req'.status)]
                        /\ resp'.loc = "/app"]_vars

C29_Witness ==
    /\ StatusUpdateBy(req, 2) /\ req.budget_id = 1 /\ StandsFor(req.status) = "lost"
    /\ resp.code = 404
    /\ budgets[1].status = "won" /\ budgets[1].user_id = 1
    /\ budgets[9].status = "awaiting" /\ budgets[9].user_id = 2
    /\ Len(budgets) > 9

\* the first component of can_create_budget is false exactly when the gate
\* reports at_limit
ChecksAgree ==
    \A u \in DOMAIN users, q \in {"ok", "no_value"} :
        can_create_budget(u, q)[1] = ~get_gate_info(u, q).at_limit

\* C30: for every account and record count can_create_budget's boolean is
\* false exactly when get_gate_info reports at_limit, and a creation request
\* that reaches the budgets_new_post handler is refused (redirect to the
\* upgrade page, nothing created) exactly when that boolean is false.
C30_CeilingChecksAgree ==
    /\ []ChecksAgree
    /\ [][\A u \in DOMAIN users :
            (IsCreation(req', u) /\ req'.svc_q # "raise" /\ resp'.code # 403)
            => ((budgets' = budgets /\ resp'.loc = "/app/upgrade")
                <=> ~can_create_budget(u, req'.svc_q)[1])]_vars

====
